---------------------------- MODULE Spec2Model ----------------------------
(***************************************************************************)
(* Model of the GitHub extraction job (jobs/data_extraction.py) and of the *)
(* PySpark transformation job (jobs/data_transformation.py).               *)
(*                                                                         *)
(* Spec     : main() of data_extraction.py: fetch_repositories, the save   *)
(*            of the repository document, fetch_pull_requests and the save *)
(*            of the pull-request document, with fetch_data's pagination / *)
(*            rate-limit loop unfolded into steps and the GitHub API as a  *)
(*            nondeterministic server.                                     *)
(* SpecAgg  : the transformation script, one action per DataFrame it       *)
(*            builds, run on input documents drawn from bounded sets.      *)
(***************************************************************************)
EXTENDS Integers, Sequences, FiniteSets, TLC

(***************************************************************************)
(* Bounds of the model.                                                    *)
(***************************************************************************)
\* longest chain of pages the server links with rel="next"
MaxPages == 2
\* most elements the server puts in one page
MaxPerPage == 2
\* most repositories the organization has
MaxRepos == 2
\* most pull requests the repositories of the organization have in all
MaxPulls == 2
\* most quota-exhaustion responses the server gives during one run
MaxRetries == 2
\* clock ticks per second (time.time() is a float, int() truncates it)
TicksPerSecond == 2
\* ticks from sending a request to handling its response
Latency == 1

(***************************************************************************)
(* Values.                                                                 *)
(***************************************************************************)
\* Python's None for a string-valued field
None == "None"
\* the names the organization gives its repositories, by repository number
RepoNames == <<"repo1", "repo2", "repo3", "repo4", "repo5", "repo6">>

\* a URL: the listing it addresses and the page of that listing.
\* kind "" is Python's None (the falsy url that ends `while url:`)
NoUrl == [kind |-> "", repo |-> "", page |-> 0]
\* f"https://api.github.com/orgs/{organization}/repos"
repos_url == [kind |-> "repos", repo |-> "", page |-> 1]
\* f"https://api.github.com/repos/{organization}/{repo}/pulls?state=all"
prs_url(repo) == [kind |-> "pulls", repo |-> repo, page |-> 1]

\* the response variable before the first request of a fetch_data call
NoResponse == [status_code |-> 0, headers |-> <<>>, json |-> <<>>]
\* a document that save_df_as_json has not written
NoFile == [exists |-> FALSE, data |-> <<>>]
\* a document left in data/input by an earlier run
OldFile == [exists |-> TRUE, data |-> <<[id |-> 0]>>]

VARIABLES
    \* ---- data_extraction.py ----
    phase,        \* position of main: "fetch_repositories", "fetch_pull_requests", "done", "raised"
    fstate,       \* position of fetch_data: "Idle", "Requesting", "WaitingForQuota", "Done", "Aborted", "Raised"
    url,          \* fetch_data: the current url
    all_data,     \* fetch_data: the accumulated records
    response,     \* fetch_data: the last response received
    sleep_time,   \* fetch_data: the computed wait, in seconds
    repos_data,   \* main: the fetched repositories
    repositories, \* fetch_pull_requests: the list of repository names
    idx,          \* fetch_pull_requests: position of `for repo in repositories`
    pr_data,      \* fetch_pull_requests: the tagged pull requests
    files,        \* the two documents of data/input
    clock,        \* wall-clock time, in ticks
    retries,      \* quota-exhaustion responses the server has given
    requested,    \* the last request issued: its url and the time it was sent
    served,       \* the 200 responses of the current fetch_data call, in order
    harvested,    \* repositories whose pull-request listing has been requested, in order
    fetched       \* what fetch_data returned for each repository, and how it ended

vars == <<phase, fstate, url, all_data, response, sleep_time, repos_data,
          repositories, idx, pr_data, files, clock, retries, requested,
          served, harvested, fetched>>

(***************************************************************************)
(* data_transformation.py: values of the input documents.                  *)
(***************************************************************************)
\* SQL NULL for a number (identifiers and timestamps are positive)
NULL == 0 - 1
\* SQL NULL for a string (strings are sequences of characters)
NullStr == <<"NULL">>

\* the literal of lower(col("repository_owner")).contains("scytale")
Expected == <<"s", "c", "y", "t", "a", "l", "e">>

\* owner.login of the repository records: the organization, the organization
\* in another case inside a longer login, another organization, no owner
OwnerScytale == <<"s", "c", "y", "t", "a", "l", "e">>
OwnerMixedCase == <<"M", "y", "S", "c", "y", "T", "A", "L", "E">>
OwnerOther == <<"o", "t", "h", "e", "r", "-", "o", "r", "g">>
Owners == {OwnerScytale, OwnerMixedCase, OwnerOther, NullStr}

\* full_name of a repository record: "<owner>/r", or "r" without an owner
FullNameOf(owner) == IF owner = NullStr THEN <<"r">> ELSE owner \o <<"/", "r">>

\* identifiers of the repository records, and of the head repositories of the
\* pull-request records (NULL: the head repository is gone)
RepoIds == {1, 3}
HeadRepoIds == {NULL, 1, 2}
\* merged_at of the pull-request records (NULL: not merged)
MergedAts == {NULL, 1, 2}

\* the records of the repositories document
RepoRecords ==
    {[id |-> i, name |-> RepoNames[i], full_name |-> FullNameOf(o), owner_login |-> o] :
        i \in RepoIds, o \in Owners}

\* the records of the pull-requests document: all harvested from the listing
\* of repo1, some from branches of other (fork) repositories
PullRecords ==
    {[head_repo_id |-> h, merged_at |-> m, repository |-> RepoNames[1]] :
        h \in HeadRepoIds, m \in MergedAts}

\* most records of the pull-requests document and of the repositories document
MaxPullRows == 2
MaxRepoRows == 2

\* sequences over S of length at most n
SeqUpTo(S, n) == UNION {[1..k -> S] : k \in 0..n}

VARIABLES
    \* ---- data_transformation.py ----
    apc,              \* position of the script
    repo_raw_df,      \* the rows read from the repositories document
    pr_raw_df,        \* the rows read from the pull-requests document
    repo_filtered_df,
    pr_aggregated_df,
    joined_df,
    final_df,
    output            \* the rows of the parquet dataset

aggvars == <<apc, repo_raw_df, pr_raw_df, repo_filtered_df, pr_aggregated_df,
             joined_df, final_df, output>>

allvars == <<vars, aggvars>>

(***************************************************************************)
(* The GitHub API, as fetch_data sees it.                                  *)
(***************************************************************************)
\* the number the organization gives the repository of that name (0: none)
RepoNumber(name) ==
    IF \E i \in 1..Len(RepoNames) : RepoNames[i] = name
    THEN CHOOSE i \in 1..Len(RepoNames) : RepoNames[i] = name
    ELSE 0

\* the identifier of pull request k of repository number r
PullId(r, k) == r * (MaxPulls + 1) + k

\* the name of the repository that pull request id belongs to
PullOwner(id) == RepoNames[id \div (MaxPulls + 1)]

\* how many elements the 200 responses in s carried
RECURSIVE NumServed(_)
NumServed(s) == IF s = <<>> THEN 0 ELSE Len(s[1].json) + NumServed(Tail(s))

\* element k of the listing u addresses: a repository of the organization,
\* or a pull request of repository u.repo
Item(u, k) ==
    IF u.kind = "repos"
    THEN [id |-> k, name |-> RepoNames[k]]
    ELSE [id |-> PullId(RepoNumber(u.repo), k)]

\* the JSON array of the next page of listing u when it holds n elements: the
\* elements that follow those the earlier pages carried
Page(u, n) == [j \in 1..n |-> Item(u, NumServed(served) + j)]

\* how many elements the page at u can hold: at most MaxPerPage, while the
\* organization has at most MaxRepos repositories and MaxPulls pull requests
PageSizes(u) ==
    IF u.kind = "repos"
    THEN {n \in 0..MaxPerPage : NumServed(served) + n <= MaxRepos}
    ELSE {n \in 0..MaxPerPage : Len(pr_data) + NumServed(served) + n <= MaxPulls}

\* the Link header of the page at u: its entries in GitHub's order
\* (prev, next, last, first); no header when the listing has a single page
LinkEntries(u, more) ==
    (IF u.page > 1
     THEN <<[target |-> [u EXCEPT !.page = u.page - 1], rel |-> "prev"]>>
     ELSE <<>>)
    \o (IF more
        THEN <<[target |-> [u EXCEPT !.page = u.page + 1], rel |-> "next"],
               [target |-> [u EXCEPT !.page = MaxPages], rel |-> "last"]>>
        ELSE <<>>)
    \o (IF u.page > 1
        THEN <<[target |-> [u EXCEPT !.page = 1], rel |-> "first"]>>
        ELSE <<>>)

\* the headers of a 200 response for the page at u
OkHeaders(u, more) ==
    IF LinkEntries(u, more) = <<>>
    THEN <<>>
    ELSE [h \in {"Link"} |-> LinkEntries(u, more)]

\* the reset times the server announces, relative to the current second
ResetOffsets == {-2, -1, 1}

\* the headers of a 403 response: the quota left and the second it resets
QuotaHeaders(remaining, reset) ==
    [h \in {"X-RateLimit-Remaining", "X-RateLimit-Reset"} |->
        IF h = "X-RateLimit-Remaining" THEN remaining ELSE reset]

\* every response the server can give to a request for u answered at time now
Responses(u, now) ==
    {[status_code |-> 200, headers |-> OkHeaders(u, more), json |-> Page(u, n)] :
        n \in PageSizes(u), more \in {m \in BOOLEAN : m => u.page < MaxPages}}
    \cup {[status_code |-> 403, headers |-> QuotaHeaders(0, (now \div TicksPerSecond) + off),
           json |-> <<>>] : off \in {o \in ResetOffsets : retries < MaxRetries}}
    \cup {[status_code |-> 403, headers |-> QuotaHeaders(1, (now \div TicksPerSecond) + 1),
           json |-> <<>>],
          [status_code |-> 403, headers |-> <<>>, json |-> <<>>],
          [status_code |-> 429, headers |-> QuotaHeaders(0, (now \div TicksPerSecond) + 1),
           json |-> <<>>],
          [status_code |-> 500, headers |-> <<>>, json |-> <<>>]}

(***************************************************************************)
(* fetch_data: one action per iteration of `while url:`, by the branch the *)
(* response takes, and one for the end of time.sleep.                      *)
(***************************************************************************)
\* RateLimited without the test of the status
RateLimitedAnyStatus(resp) ==
    /\ "X-RateLimit-Remaining" \in DOMAIN resp.headers
    /\ resp.headers["X-RateLimit-Remaining"] = 0

\* RateLimited without the test that the remaining quota is 0
RateLimitedAnyQuota(resp) ==
    /\ resp.status_code = 403
    /\ "X-RateLimit-Remaining" \in DOMAIN resp.headers

\* response.status_code == 403 and "X-RateLimit-Remaining" in response.headers
\* and int(response.headers["X-RateLimit-Remaining"]) == 0
RateLimited(resp) ==
    /\ resp.status_code = 403
    /\ "X-RateLimit-Remaining" \in DOMAIN resp.headers
    /\ resp.headers["X-RateLimit-Remaining"] = 0

\* the url of the first Link entry marked rel="next"; None without one
NextUrl(headers) ==
    IF "Link" \in DOMAIN headers /\ headers["Link"] # <<>>
    THEN LET next_link == SelectSeq(headers["Link"], LAMBDA link : link.rel = "next")
         IN  IF next_link # <<>> THEN next_link[1].target ELSE NoUrl
    ELSE NoUrl

\* SleepTime without the second of margin
SleepTimeNoMargin(reset_time, now) == reset_time - (now \div TicksPerSecond)

\* reset_time - int(time.time()) + 1
SleepTime(reset_time, now) == reset_time - (now \div TicksPerSecond) + 1

\* Extend with the new page put in front
ExtendInFront(acc, data) == data \o acc

\* all_data.extend(data)
Extend(acc, data) == acc \o data

\* no fetch_data call is active: its locals do not exist
LeaveFetch ==
    /\ url' = NoUrl
    /\ all_data' = <<>>
    /\ response' = NoResponse
    /\ sleep_time' = 0
    /\ served' = <<>>
    /\ fstate' = "Idle"

\* fetch_data(u) is entered: its locals before the first iteration
EnterFetch(u) ==
    /\ url' = u
    /\ all_data' = <<>>
    /\ response' = NoResponse
    /\ sleep_time' = 0
    /\ served' = <<>>
    /\ fstate' = IF u = NoUrl THEN "Done" ELSE "Requesting"

Fetching == phase \in {"fetch_repositories", "fetch_pull_requests"}

\* requests.get(url, headers=headers), answered with resp
Get(resp) ==
    /\ Fetching
    /\ fstate = "Requesting"
    /\ resp \in Responses(url, clock + Latency)
    /\ response' = resp
    /\ clock' = clock + Latency
    /\ requested' = [url |-> url, at |-> clock]
    /\ retries' = IF RateLimited(resp) THEN retries + 1 ELSE retries
    /\ harvested' = IF url.kind = "pulls" /\ response = NoResponse
                    THEN Append(harvested, url.repo)
                    ELSE harvested
    /\ UNCHANGED fetched

\* status 200: extend all_data with the page and follow the rel="next" link
OnPage ==
    \E resp \in Responses(url, clock + Latency) :
        /\ resp.status_code = 200
        /\ Get(resp)
        /\ all_data' = Extend(all_data, resp.json)
        /\ url' = NextUrl(resp.headers)
        /\ fstate' = IF url' = NoUrl THEN "Done" ELSE "Requesting"
        /\ served' = Append(served, [url |-> url, json |-> resp.json])
        /\ UNCHANGED <<phase, sleep_time, repos_data, repositories, idx, pr_data, files>>
        /\ UNCHANGED aggvars

\* quota exhausted: compute the wait and call time.sleep
OnRateLimit ==
    \E resp \in Responses(url, clock + Latency) :
        /\ resp.status_code # 200
        /\ RateLimited(resp)
        /\ Get(resp)
        /\ sleep_time' = SleepTime(resp.headers["X-RateLimit-Reset"], clock')
        /\ fstate' = "WaitingForQuota"
        /\ UNCHANGED <<phase, url, all_data, served, repos_data, repositories, idx,
                       pr_data, files>>
        /\ UNCHANGED aggvars

\* time.sleep(sleep_time) returns, at the earliest moment it may (it suspends
\* for at least sleep_time seconds): `continue` retries the request
Sleep ==
    /\ Fetching
    /\ fstate = "WaitingForQuota"
    /\ sleep_time >= 0
    /\ clock' = clock + sleep_time * TicksPerSecond
    /\ fstate' = "Requesting"
    /\ UNCHANGED <<phase, url, all_data, response, sleep_time, served, repos_data,
                   repositories, idx, pr_data, files, retries, requested, harvested, fetched>>
    /\ UNCHANGED aggvars

\* time.sleep(sleep_time) with a negative argument raises ValueError, which
\* nothing catches: fetch_data, its caller and main are left by the exception
SleepRaises ==
    /\ Fetching
    /\ fstate = "WaitingForQuota"
    /\ sleep_time < 0
    /\ fstate' = "Raised"
    /\ phase' = "raised"
    /\ UNCHANGED <<url, all_data, response, sleep_time, served, repos_data, repositories,
                   idx, pr_data, files, clock, retries, requested, harvested,
                   fetched>>
    /\ UNCHANGED aggvars

\* any other response: print the failure and `break`
OnFailure ==
    \E resp \in Responses(url, clock + Latency) :
        /\ resp.status_code # 200
        /\ ~RateLimited(resp)
        /\ Get(resp)
        /\ fstate' = "Aborted"
        /\ UNCHANGED <<phase, url, all_data, sleep_time, served, repos_data, repositories,
                       idx, pr_data, files>>
        /\ UNCHANGED aggvars

(***************************************************************************)
(* save_df_as_json, fetch_pull_requests and main.                          *)
(***************************************************************************)
\* SaveDfAsJson that writes whatever it is given, an empty list too
SaveDfAsJsonAlways(data, old) == [exists |-> TRUE, data |-> data]

\* save_df_as_json(data, path, filename): the document afterwards, old being
\* the document before; `if data:` writes nothing for an empty list
SaveDfAsJson(data, old) ==
    IF data # <<>> THEN [exists |-> TRUE, data |-> data] ELSE old

\* SetRepository that leaves the record as it came
SetRepositoryForgotten(pr, repo) == pr

\* pr["repository"] = repo
SetRepository(pr, repo) ==
    [k \in DOMAIN pr \cup {"repository"} |-> IF k = "repository" THEN repo ELSE pr[k]]

\* TagAndExtend that records a repository without pull requests by a placeholder
TagAndExtendPlaceholder(acc, prs, repo) ==
    IF prs # <<>>
    THEN acc \o [i \in 1..Len(prs) |-> [id |-> prs[i].id, repository |-> repo]]
    ELSE Append(acc, [id |-> 0, repository |-> repo])

\* one iteration of `for repo in repositories` after prs = fetch_data(prs_url):
\* the new pr_data
TagAndExtend(acc, prs, repo) ==
    IF prs # <<>>
    THEN Extend(acc, [i \in 1..Len(prs) |-> SetRepository(prs[i], repo)])
    ELSE acc

\* HasNext of a loop that an aborted fetch ends
HasNextUnlessAborted(i, repos) == i < Len(repos) /\ fstate # "Aborted"

\* `for repo in repositories` has another repository after position i
HasNext(i, repos) == i < Len(repos)

\* [repo["name"] for repo in repos_data]
Names(data) == [i \in 1..Len(data) |-> data[i].name]

\* fetch_data has returned all_data (loop left by `while url:` or by `break`)
Returned == fstate \in {"Done", "Aborted"}

\* main, step 1 done: save the repositories; with repositories, enter
\* fetch_pull_requests and its first fetch_data call
ReposFetched ==
    /\ phase = "fetch_repositories"
    /\ Returned
    /\ repos_data' = all_data
    /\ files' = [files EXCEPT !.repositories = SaveDfAsJson(all_data, @)]
    /\ IF all_data # <<>>
       THEN /\ repositories' = Names(all_data)
            /\ idx' = 1
            /\ phase' = "fetch_pull_requests"
            /\ EnterFetch(prs_url(Names(all_data)[1]))
       ELSE /\ phase' = "done"
            /\ LeaveFetch
            /\ UNCHANGED <<repositories, idx>>
    /\ UNCHANGED <<pr_data, clock, retries, requested, harvested, fetched>>
    /\ UNCHANGED aggvars

\* fetch_pull_requests: a repository's fetch returned and another follows
NextRepo ==
    /\ phase = "fetch_pull_requests"
    /\ Returned
    /\ HasNext(idx, repositories)
    /\ pr_data' = TagAndExtend(pr_data, all_data, repositories[idx])
    /\ idx' = idx + 1
    /\ EnterFetch(prs_url(repositories[idx + 1]))
    /\ fetched' = Append(fetched, [repo |-> repositories[idx], data |-> all_data,
                                   outcome |-> fstate])
    /\ UNCHANGED <<phase, repos_data, repositories, files, clock, retries, requested, harvested>>
    /\ UNCHANGED aggvars

\* fetch_pull_requests: the last repository's fetch returned; main saves pr_data
HarvestDone ==
    /\ phase = "fetch_pull_requests"
    /\ Returned
    /\ ~HasNext(idx, repositories)
    /\ pr_data' = TagAndExtend(pr_data, all_data, repositories[idx])
    /\ files' = [files EXCEPT !.pull_requests = SaveDfAsJson(pr_data', @)]
    /\ phase' = "done"
    /\ LeaveFetch
    /\ fetched' = Append(fetched, [repo |-> repositories[idx], data |-> all_data,
                                   outcome |-> fstate])
    /\ UNCHANGED <<repos_data, repositories, idx, clock, retries, requested,
                   harvested>>
    /\ UNCHANGED aggvars

StartClock == 2 * TicksPerSecond

\* the transformation script is not running
AggIdle ==
    /\ apc = "idle"
    /\ repo_raw_df = <<>>
    /\ pr_raw_df = <<>>
    /\ repo_filtered_df = <<>>
    /\ pr_aggregated_df = <<>>
    /\ joined_df = <<>>
    /\ final_df = <<>>
    /\ output = <<>>

Init ==
    /\ phase = "fetch_repositories"
    /\ fstate = "Requesting"
    /\ url = repos_url
    /\ all_data = <<>>
    /\ response = NoResponse
    /\ sleep_time = 0
    /\ served = <<>>
    /\ repos_data = <<>>
    /\ repositories = <<>>
    /\ idx = 0
    /\ pr_data = <<>>
    /\ files \in [{"repositories", "pull_requests"} -> {NoFile, OldFile}]
    /\ clock = StartClock
    /\ retries = 0
    /\ requested = [url |-> NoUrl, at |-> 0]
    /\ harvested = <<>>
    /\ fetched = <<>>
    /\ AggIdle

Next ==
    \/ OnPage
    \/ OnRateLimit
    \/ Sleep
    \/ SleepRaises
    \/ OnFailure
    \/ ReposFetched
    \/ NextRepo
    \/ HarvestDone

Spec == Init /\ [][Next]_allvars

(***************************************************************************)
(* data_transformation.py: the Spark column functions it uses.  A boolean  *)
(* column is "T", "F" or "N" (SQL NULL).                                   *)
(***************************************************************************)
UpperCase == <<"A", "B", "C", "D", "E", "F", "G", "H", "I", "J", "K", "L", "M",
               "N", "O", "P", "Q", "R", "S", "T", "U", "V", "W", "X", "Y", "Z">>
LowerCase == <<"a", "b", "c", "d", "e", "f", "g", "h", "i", "j", "k", "l", "m",
               "n", "o", "p", "q", "r", "s", "t", "u", "v", "w", "x", "y", "z">>

LowerChar(c) ==
    IF \E i \in 1..Len(UpperCase) : UpperCase[i] = c
    THEN LowerCase[CHOOSE i \in 1..Len(UpperCase) : UpperCase[i] = c]
    ELSE c

\* Lower that leaves the case as it is
LowerForgotten(s) == s

\* lower(col): NULL for NULL
Lower(s) == IF s = NullStr THEN NullStr ELSE [i \in 1..Len(s) |-> LowerChar(s[i])]

\* col.contains(sub): NULL for NULL
Contains(s, sub) ==
    IF s = NullStr
    THEN "N"
    ELSE IF \E i \in 0..(Len(s) - Len(sub)) : SubSeq(s, i + 1, i + Len(sub)) = sub
         THEN "T"
         ELSE "F"

\* col == col on numbers: NULL when either side is NULL
EqualTo(a, b) ==
    IF a = NULL \/ b = NULL THEN "N" ELSE IF a = b THEN "T" ELSE "F"

\* col & col: SQL's three-valued AND
And(a, b) ==
    IF a = "F" \/ b = "F" THEN "F"
    ELSE IF a = "N" \/ b = "N" THEN "N"
    ELSE "T"

\* when(cond, True).otherwise(False): True only when cond is true
WhenOtherwise(cond) == cond = "T"

\* split(col, "/").getItem(0): the characters before the first "/"
RECURSIVE SplitItem0(_)
SplitItem0(s) ==
    IF s = NullStr THEN NullStr
    ELSE IF s = <<>> \/ Head(s) = "/" THEN <<>>
    ELSE <<Head(s)>> \o SplitItem0(Tail(s))

(***************************************************************************)
(* data_transformation.py: the DataFrames, as sequences of rows.           *)
(***************************************************************************)
\* repo_raw_df.select(...): one row of repo_filtered_df
RepoFiltered(r) ==
    [organization_name |-> SplitItem0(r.full_name),
     repository_id     |-> r.id,
     repository_name   |-> r.name,
     repository_owner  |-> r.owner_login]

\* GroupKey with a missing identifier replaced by that of the tagged repository
GroupKeyTagForMissing(pr) ==
    IF pr.head_repo_id = NULL THEN RepoNumber(pr.repository) ELSE pr.head_repo_id

\* GroupKey by the tag of the harvest: the number of the tagged repository
GroupKeyByTag(pr) == RepoNumber(pr.repository)

\* GROUP BY head.repo.id: the grouping key of a pull-request row
GroupKey(pr) == pr.head_repo_id

\* the distinct keys of ks, in order of first occurrence
RECURSIVE DistinctKeys(_, _)
DistinctKeys(ks, seen) ==
    IF ks = <<>> THEN <<>>
    ELSE IF Head(ks) \in seen THEN DistinctKeys(Tail(ks), seen)
    ELSE <<Head(ks)>> \o DistinctKeys(Tail(ks), seen \cup {Head(ks)})

\* COUNT(merged_at): counts the rows whose merged_at is not NULL
CountMergedAt(group) == Len(SelectSeq(group, LAMBDA pr : pr.merged_at # NULL))

\* COUNT(*)
CountStar(group) == Len(group)

\* SUM(CASE WHEN merged_at IS NOT NULL THEN 1 ELSE 0 END)
RECURSIVE SumMerged(_)
SumMerged(group) ==
    IF group = <<>> THEN 0
    ELSE (IF Head(group).merged_at # NULL THEN 1 ELSE 0) + SumMerged(Tail(group))

\* MaxMergedAt that keeps the last non-NULL value in the order of the rows
RECURSIVE MaxMergedAtLastSeen(_)
MaxMergedAtLastSeen(group) ==
    IF group = <<>> THEN NULL
    ELSE LET m == group[Len(group)].merged_at
         IN  IF m # NULL THEN m
             ELSE MaxMergedAtLastSeen(SubSeq(group, 1, Len(group) - 1))

\* MAX(merged_at): the greatest non-NULL value, NULL without one
RECURSIVE MaxMergedAt(_)
MaxMergedAt(group) ==
    IF group = <<>> THEN NULL
    ELSE LET m == Head(group).merged_at
             rest == MaxMergedAt(Tail(group))
         IN  IF m = NULL THEN rest
             ELSE IF rest = NULL \/ m > rest THEN m
             ELSE rest

\* the SELECT ... GROUP BY of pr_aggregated_df over the rows prs
Aggregated(prs) ==
    LET keys == DistinctKeys([i \in 1..Len(prs) |-> GroupKey(prs[i])], {})
        group(k) == SelectSeq(prs, LAMBDA pr : GroupKey(pr) = k)
    IN  [i \in 1..Len(keys) |->
            [repository_id  |-> keys[i],
             num_prs        |-> CountStar(group(keys[i])),
             num_prs_merged |-> SumMerged(group(keys[i])),
             merged_at      |-> MaxMergedAt(group(keys[i]))]]

\* the join condition of join(..., "repository_id"): equality, never on NULL
JoinMatch(a, b) == a # NULL /\ b # NULL /\ a = b

\* JoinRows of a left outer join: an aggregate row without match is kept
JoinRowsLeftOuter(agg, matches) ==
    IF matches = <<>>
    THEN <<[repository_id     |-> agg.repository_id,
            num_prs           |-> agg.num_prs,
            num_prs_merged    |-> agg.num_prs_merged,
            merged_at         |-> agg.merged_at,
            organization_name |-> NullStr,
            repository_name   |-> None,
            repository_owner  |-> NullStr]>>
    ELSE [i \in 1..Len(matches) |->
            [repository_id     |-> agg.repository_id,
             num_prs           |-> agg.num_prs,
             num_prs_merged    |-> agg.num_prs_merged,
             merged_at         |-> agg.merged_at,
             organization_name |-> matches[i].organization_name,
             repository_name   |-> matches[i].repository_name,
             repository_owner  |-> matches[i].repository_owner]]

\* the rows an aggregate row agg contributes to the inner join, matches being
\* the repository rows whose repository_id matches
JoinRows(agg, matches) ==
    [i \in 1..Len(matches) |->
        [repository_id     |-> agg.repository_id,
         num_prs           |-> agg.num_prs,
         num_prs_merged    |-> agg.num_prs_merged,
         merged_at         |-> agg.merged_at,
         organization_name |-> matches[i].organization_name,
         repository_name   |-> matches[i].repository_name,
         repository_owner  |-> matches[i].repository_owner]]

\* pr_aggregated_df.join(repo_filtered_df, "repository_id")
RECURSIVE Joined(_, _)
Joined(aggs, repos) ==
    IF aggs = <<>> THEN <<>>
    ELSE JoinRows(Head(aggs),
                  SelectSeq(repos, LAMBDA r :
                      JoinMatch(Head(aggs).repository_id, r.repository_id)))
         \o Joined(Tail(aggs), repos)

\* the is_compliant column of a joined row
IsCompliant(row) ==
    WhenOtherwise(And(EqualTo(row.num_prs, row.num_prs_merged),
                      Contains(Lower(row.repository_owner), Expected)))

\* withColumn("is_compliant", ...) and the final select, for one row
Final(row) ==
    [organization_name |-> row.organization_name,
     repository_id     |-> row.repository_id,
     repository_name   |-> row.repository_name,
     repository_owner  |-> row.repository_owner,
     num_prs           |-> row.num_prs,
     num_prs_merged    |-> row.num_prs_merged,
     merged_at         |-> row.merged_at,
     is_compliant      |-> IsCompliant(row)]

\* the extraction job is not running
ExtractIdle ==
    /\ phase = "idle"
    /\ fstate = "Idle"
    /\ url = NoUrl
    /\ all_data = <<>>
    /\ response = NoResponse
    /\ sleep_time = 0
    /\ served = <<>>
    /\ repos_data = <<>>
    /\ repositories = <<>>
    /\ idx = 0
    /\ pr_data = <<>>
    /\ files = [f \in {"repositories", "pull_requests"} |-> NoFile]
    /\ clock = StartClock
    /\ retries = 0
    /\ requested = [url |-> NoUrl, at |-> 0]
    /\ harvested = <<>>
    /\ fetched = <<>>

\* the listing of an organization names each repository once
DistinctIds(df) == \A i, j \in 1..Len(df) : df[i].id = df[j].id => i = j

\* spark.read.json of the two documents
InitAgg ==
    /\ ExtractIdle
    /\ apc = "read"
    /\ repo_raw_df \in {df \in SeqUpTo(RepoRecords, MaxRepoRows) : DistinctIds(df)}
    /\ pr_raw_df \in SeqUpTo(PullRecords, MaxPullRows)
    /\ repo_filtered_df = <<>>
    /\ pr_aggregated_df = <<>>
    /\ joined_df = <<>>
    /\ final_df = <<>>
    /\ output = <<>>

\* repo_filtered_df = repo_raw_df.select(...)
SelectRepos ==
    /\ apc = "read"
    /\ repo_filtered_df' = [i \in 1..Len(repo_raw_df) |-> RepoFiltered(repo_raw_df[i])]
    /\ apc' = "filtered"
    /\ UNCHANGED <<repo_raw_df, pr_raw_df, pr_aggregated_df, joined_df, final_df, output>>
    /\ UNCHANGED vars

\* pr_aggregated_df = spark.sql(...)
AggregatePulls ==
    /\ apc = "filtered"
    /\ pr_aggregated_df' = Aggregated(pr_raw_df)
    /\ apc' = "aggregated"
    /\ UNCHANGED <<repo_raw_df, pr_raw_df, repo_filtered_df, joined_df, final_df, output>>
    /\ UNCHANGED vars

\* joined_df = pr_aggregated_df.join(repo_filtered_df, "repository_id")
Join ==
    /\ apc = "aggregated"
    /\ joined_df' = Joined(pr_aggregated_df, repo_filtered_df)
    /\ apc' = "joined"
    /\ UNCHANGED <<repo_raw_df, pr_raw_df, repo_filtered_df, pr_aggregated_df, final_df,
                   output>>
    /\ UNCHANGED vars

\* final_df = joined_df.withColumn("is_compliant", ...).select(...)
Classify ==
    /\ apc = "joined"
    /\ final_df' = [i \in 1..Len(joined_df) |-> Final(joined_df[i])]
    /\ apc' = "final"
    /\ UNCHANGED <<repo_raw_df, pr_raw_df, repo_filtered_df, pr_aggregated_df, joined_df,
                   output>>
    /\ UNCHANGED vars

\* final_df.write.partitionBy("repository_name").mode("overwrite").parquet(...)
Write ==
    /\ apc = "final"
    /\ output' = final_df
    /\ apc' = "written"
    /\ UNCHANGED <<repo_raw_df, pr_raw_df, repo_filtered_df, pr_aggregated_df, joined_df,
                   final_df>>
    /\ UNCHANGED vars

NextAgg ==
    \/ SelectRepos
    \/ AggregatePulls
    \/ Join
    \/ Classify
    \/ Write

SpecAgg == InitAgg /\ [][NextAgg]_allvars

(***************************************************************************)
(* Properties of fetch_data.                                               *)
(***************************************************************************)
\* the elements of the pages in s, page after page
RECURSIVE Flatten(_)
Flatten(s) == IF s = <<>> THEN <<>> ELSE Head(s) \o Flatten(Tail(s))

\* the JSON arrays of the 200 responses of the current fetch_data call
ServedPages == [i \in 1..Len(served) |-> served[i].json]

\* a response that reports quota exhaustion: 403 with a remaining quota of 0
QuotaExhausted(resp) ==
    /\ resp.status_code = 403
    /\ "X-RateLimit-Remaining" \in DOMAIN resp.headers
    /\ resp.headers["X-RateLimit-Remaining"] = 0

\* the response carries a Link entry marked rel="next"
HasNextLink(resp) ==
    /\ "Link" \in DOMAIN resp.headers
    /\ \E i \in 1..Len(resp.headers["Link"]) : resp.headers["Link"][i].rel = "next"

\* this step issues a request (every request takes time, so its stamp is new)
IssuesRequest == requested' # requested

\* C1: when fetch_data leaves its loop through the last page of a chain (a 200
\* response without a rel="next" entry), the 200 responses it received are
\* pages 1..N of the listing in order, each once, and all_data is exactly the
\* concatenation of their elements in that order, whatever quota-exhaustion
\* responses came in between.
C1_ConcatenationInPageOrder ==
    fstate = "Done" =>
        /\ all_data = Flatten(ServedPages)
        /\ \A i \in 1..Len(served) : served[i].url.page = i
        /\ \A i \in 1..Len(served) : served[i].url.kind = served[1].url.kind
                                     /\ served[i].url.repo = served[1].url.repo
        /\ response.status_code = 200
        /\ ~HasNextLink(response)

\* C1 witness: a chain of two non-empty pages was drained with a
\* quota-exhaustion retry in between
C1_Witness ==
    /\ fstate = "Done"
    /\ phase = "fetch_repositories"
    /\ retries >= 1
    /\ Len(served) = 2
    /\ served[1].json # <<>>
    /\ served[2].json # <<>>

\* C2: after a 403 response with remaining quota 0 and reset time T, the
\* response is neither a page advance nor an abort (url and all_data are kept
\* and the fetch waits), nothing changes them during the wait, and the next
\* request is sent no earlier than T+1 seconds and to the same url.
C2_RetrySameUrlAfterReset ==
    [][/\ (IssuesRequest /\ QuotaExhausted(response')) =>
            /\ fstate' = "WaitingForQuota"
            /\ url' = url
            /\ all_data' = all_data
       /\ fstate = "WaitingForQuota" =>
            /\ ~IssuesRequest
            /\ url' = url
            /\ all_data' = all_data
            /\ fstate' # "Aborted"
       /\ (IssuesRequest /\ QuotaExhausted(response)) =>
            /\ requested'.url = requested.url
            /\ requested'.at >= (response.headers["X-RateLimit-Reset"] + 1) * TicksPerSecond
      ]_allvars

\* C2 witness: the wait after a quota-exhaustion response on a later page is
\* over and the fetch is about to request the same url again
C2_Witness ==
    /\ fstate = "Requesting"
    /\ QuotaExhausted(response)
    /\ sleep_time > 0
    /\ all_data # <<>>
    /\ url = requested.url
    /\ url.page > 1
    /\ clock >= (response.headers["X-RateLimit-Reset"] + 1) * TicksPerSecond

\* C3: a non-200 response that is not a quota exhaustion ends the loop: the
\* fetch is aborted with all_data unchanged, which is exactly the elements of
\* the K pages received so far, in order; from there no request is issued, no
\* exception leaves fetch_data, and the caller receives that all_data.
C3_AbortReturnsPartial ==
    [][/\ (IssuesRequest /\ response'.status_code # 200 /\ ~QuotaExhausted(response')) =>
            /\ fstate' = "Aborted"
            /\ all_data' = all_data
            /\ all_data' = Flatten([i \in 1..Len(served') |-> served'[i].json])
       /\ fstate = "Aborted" =>
            /\ ~IssuesRequest
            /\ phase' # "raised"
            /\ \/ phase = "fetch_repositories" /\ repos_data' = all_data
               \/ /\ phase = "fetch_pull_requests"
                  /\ Len(fetched') = Len(fetched) + 1
                  /\ fetched'[Len(fetched')].data = all_data
               \/ UNCHANGED allvars
      ]_allvars

\* C3 witness: a fetch aborted after one non-empty page
C3_Witness ==
    /\ fstate = "Aborted"
    /\ Len(served) = 1
    /\ all_data # <<>>
    /\ response.status_code = 500

(***************************************************************************)
(* Properties of fetch_pull_requests.                                      *)
(***************************************************************************)
\* s is an initial segment of t
IsPrefix(s, t) == Len(s) <= Len(t) /\ SubSeq(t, 1, Len(s)) = s

\* C4: the harvest requests the pull-request listing of every repository of
\* the list, in list order, whatever the earlier fetches returned: after an
\* aborted (empty or truncated) fetch the next repository is fetched, the
\* listings requested so far are always the first repositories of the list,
\* all of them once the harvest has returned, and pr_data only grows.
C4_HarvestContinuesAfterFailure ==
    [][/\ (phase = "fetch_pull_requests" /\ fstate = "Aborted" /\ idx < Len(repositories)) =>
            /\ phase' = "fetch_pull_requests"
            /\ fstate' = "Requesting"
            /\ url' = prs_url(repositories[idx + 1])
       /\ phase' = "fetch_pull_requests" =>
            /\ IsPrefix(harvested', repositories')
            /\ Len(harvested') \in {idx' - 1, idx'}
       /\ (phase' = "done" /\ repositories' # <<>>) => harvested' = repositories'
       /\ IsPrefix(pr_data, pr_data')
      ]_allvars

\* C4 witness: the fetch of the first repository was aborted after a page,
\* its records were kept, and the listing of the second one was requested
C4_Witness ==
    /\ phase = "fetch_pull_requests"
    /\ Len(fetched) = 1
    /\ fetched[1].outcome = "Aborted"
    /\ fetched[1].data # <<>>
    /\ pr_data # <<>>
    /\ harvested = SubSeq(repositories, 1, 2)
    /\ Len(harvested) = 2

\* C5: every record of pr_data has a `repository` field that is not None and
\* names the repository whose listing the server returned the record from.
C5_TaggedWithSourceRepository ==
    \A i \in 1..Len(pr_data) :
        /\ "repository" \in DOMAIN pr_data[i]
        /\ pr_data[i].repository # None
        /\ pr_data[i].repository = PullOwner(pr_data[i].id)

\* C5 witness: the harvest returned records of two repositories
C5_Witness ==
    /\ phase = "done"
    /\ Len(pr_data) >= 2
    /\ pr_data[1].repository # pr_data[Len(pr_data)].repository

\* C6: pr_data is the concatenation, in list order, of what fetch_data
\* returned for each repository (each record with its tag added and nothing
\* else changed); an empty return adds no element, so the length of pr_data
\* is the sum of the lengths of the returns.
C6_ConcatenationOfFetches ==
    /\ [i \in 1..Len(pr_data) |-> [id |-> pr_data[i].id]]
         = Flatten([i \in 1..Len(fetched) |-> fetched[i].data])
    /\ \A i \in 1..Len(pr_data) : DOMAIN pr_data[i] = {"id", "repository"}
    /\ \A i \in 1..Len(fetched) : fetched[i].repo = repositories[i]
    /\ (phase = "done" /\ repositories # <<>>) => Len(fetched) = Len(repositories)

\* C6 witness: the first repository returned nothing, the second something
C6_Witness ==
    /\ phase = "done"
    /\ Len(fetched) = 2
    /\ fetched[1].data = <<>>
    /\ fetched[2].data # <<>>
    /\ Len(pr_data) = Len(fetched[2].data)

(***************************************************************************)
(* Properties of the transformation.                                       *)
(***************************************************************************)
\* the owners of the input documents whose login, lower-cased, contains
\* "scytale"
OwnersOfScytale == {OwnerScytale, OwnerMixedCase}

\* the rows of a DataFrame, as a set
Rows(df) == {df[i] : i \in 1..Len(df)}

\* the head-repository identifiers observed on the pull requests
ObservedHeadIds == {pr_raw_df[i].head_repo_id : i \in 1..Len(pr_raw_df)}

\* the positions of the pull requests whose head repository is k
PullsOf(k) == {i \in 1..Len(pr_raw_df) : pr_raw_df[i].head_repo_id = k}

\* the merge timestamps present on the pull requests whose head repository is k
MergedAtsOf(k) ==
    {pr_raw_df[i].merged_at : i \in {j \in PullsOf(k) : pr_raw_df[j].merged_at # NULL}}

\* C7: a row of the output is compliant exactly when num_prs equals
\* num_prs_merged and its owner, lower-cased, contains "scytale"; the owner of
\* another organization and the absent owner are never compliant.
C7_CompliantIffAllMergedAndOwner ==
    \A row \in Rows(final_df) \cup Rows(output) :
        row.is_compliant =
            (row.num_prs = row.num_prs_merged /\ row.repository_owner \in OwnersOfScytale)

\* C7 witness: a compliant row whose owner matches only after lower-casing
C7_Witness ==
    /\ apc = "written"
    /\ \E row \in Rows(output) :
          /\ row.is_compliant
          /\ row.repository_owner = OwnerMixedCase
          /\ row.num_prs = 2

\* C8: the join is inner on repository_id: the identifiers of the joined rows
\* are exactly those that occur both among the repositories and among the
\* head repositories of the pull requests, one row per repository record.
C8_InnerJoin ==
    apc \in {"joined", "final", "written"} =>
        /\ {row.repository_id : row \in Rows(joined_df)}
             = {r.id : r \in Rows(repo_raw_df)} \cap (ObservedHeadIds \ {NULL})
        /\ Len(joined_df) =
             Cardinality({i \in 1..Len(repo_raw_df) :
                             repo_raw_df[i].id \in ObservedHeadIds \ {NULL}})

\* C8 witness: a repository without pull requests and a pull-request group
\* without repository: no row comes out of the join
C8_Witness ==
    /\ apc = "joined"
    /\ repo_raw_df # <<>>
    /\ Len(pr_aggregated_df) = 1
    /\ pr_aggregated_df[1].repository_id # NULL
    /\ joined_df = <<>>

\* C9: in every group of the aggregate, num_prs_merged <= num_prs and
\* num_prs >= 1.
C9_MergedAtMostAll ==
    \A g \in Rows(pr_aggregated_df) :
        /\ g.num_prs_merged <= g.num_prs
        /\ g.num_prs >= 1
        /\ g.num_prs_merged >= 0

\* C9 witness: a group of two pull requests of which one is merged
C9_Witness ==
    /\ apc = "aggregated"
    /\ \E g \in Rows(pr_aggregated_df) : g.num_prs = 2 /\ g.num_prs_merged = 1

\* C10: the aggregate has one group per head-repository identifier observed
\* on the pull requests (not per `repository` tag); its num_prs is the number
\* of pull requests with that identifier, its num_prs_merged the number of
\* those with a merged_at, and its merged_at the greatest merged_at present,
\* NULL when none is.
C10_GroupedByHeadRepository ==
    apc \in {"aggregated", "joined", "final", "written"} =>
        /\ {g.repository_id : g \in Rows(pr_aggregated_df)} = ObservedHeadIds
        /\ Len(pr_aggregated_df) = Cardinality(ObservedHeadIds)
        /\ \A g \in Rows(pr_aggregated_df) :
              /\ g.num_prs = Cardinality(PullsOf(g.repository_id))
              /\ g.num_prs_merged =
                    Cardinality({i \in PullsOf(g.repository_id) :
                                    pr_raw_df[i].merged_at # NULL})
              /\ IF MergedAtsOf(g.repository_id) = {}
                 THEN g.merged_at = NULL
                 ELSE /\ g.merged_at \in MergedAtsOf(g.repository_id)
                      /\ \A m \in MergedAtsOf(g.repository_id) : m <= g.merged_at

\* C10 witness: two pull requests harvested from the same listing (same tag)
\* with different head repositories form two groups, one merged, one not
C10_Witness ==
    /\ apc = "aggregated"
    /\ Len(pr_aggregated_df) = 2
    /\ pr_raw_df[1].repository = pr_raw_df[2].repository
    /\ pr_aggregated_df[1].merged_at # NULL
    /\ pr_aggregated_df[2].merged_at = NULL

(***************************************************************************)
(* Properties of the rate-limit wait.                                      *)
(***************************************************************************)
\* C11: the wait fetch_data computes is clamped to a non-negative floor before
\* it is used: the argument of time.sleep is never negative, and a
\* quota-exhaustion response whose reset time lies in the past never makes
\* the fetch fail.
C11_WaitClampedToFloor ==
    /\ fstate = "WaitingForQuota" => sleep_time >= 0
    /\ fstate # "Raised"


C13_OnlyExhausted403IsRetried ==
    [][/\ (IssuesRequest /\ fstate' = "WaitingForQuota") =>
            /\ response'.status_code = 403
            /\ "X-RateLimit-Remaining" \in DOMAIN response'.headers
            /\ response'.headers["X-RateLimit-Remaining"] = 0
       /\ (/\ IssuesRequest
           /\ response'.status_code = 403
           /\ \/ "X-RateLimit-Remaining" \notin DOMAIN response'.headers
              \/ response'.headers["X-RateLimit-Remaining"] # 0) =>
            /\ fstate' = "Aborted"
            /\ all_data' = all_data
            /\ url' = url
       /\ (IssuesRequest /\ response'.status_code \notin {200, 403}) =>
            /\ fstate' = "Aborted"
            /\ all_data' = all_data
       /\ (fstate = "Aborted" /\ response.status_code = 403) =>
            /\ ~IssuesRequest
            /\ fstate' \notin {"Requesting", "WaitingForQuota"} \/ url' # url
      ]_allvars

\* C13 witness: after one page, a 403 response that still reports quota left
\* has aborted the fetch with the records of that page
C13_Witness ==
    /\ fstate = "Aborted"
    /\ response.status_code = 403
    /\ "X-RateLimit-Remaining" \in DOMAIN response.headers
    /\ response.headers["X-RateLimit-Remaining"] = 1
    /\ Len(served) = 1
    /\ all_data = served[1].json
    /\ all_data # <<>>

(***************************************************************************)
(* Termination of fetch_data.                                              *)
(***************************************************************************)
\* main keeps running while a step of it is possible (the process is not
\* suspended for ever: requests.get and time.sleep return)
LiveSpec == Spec /\ WF_allvars(Next)

\* C14: every call of fetch_data eventually returns, in Done or in Aborted
\* (the server links finitely many pages and reports quota exhaustion
\* finitely often).
C14_FetchEventuallyReturns ==
    (fstate = "Requesting") ~> (fstate \in {"Done", "Aborted"})


(***************************************************************************)
(* Properties of the transformation under reordering of its inputs.        *)
(***************************************************************************)
\* the sequences that hold the records of df in another order
Reorderings(df) ==
    {[i \in 1..Len(df) |-> df[p[i]]] : p \in Permutations(1..Len(df))}

\* final_df as the transformation computes it from the aggregate rows aggs and
\* the records repos of the repositories document
Transform(aggs, repos) ==
    LET filtered == [i \in 1..Len(repos) |-> RepoFiltered(repos[i])]
        joined == Joined(aggs, filtered)
    IN  [i \in 1..Len(joined) |-> Final(joined[i])]

\* how often row occurs in df
Occurrences(df, row) == Cardinality({i \in 1..Len(df) : df[i] = row})

\* C15: for a fixed pair of documents the written ComplianceRecords are the
\* same, each as often, in whatever order the pull-request records and the
\* repository records are processed: grouping, counting, the maximum and the
\* join do not depend on the order of the records.
C15_OutputIndependentOfOrder ==
    apc = "written" =>
        \A prs \in Reorderings(pr_raw_df) :
            LET aggs == Aggregated(prs)
            IN  \A repos \in Reorderings(repo_raw_df) :
                    LET out == Transform(aggs, repos)
                    IN  /\ Rows(out) = Rows(output)
                        /\ Len(out) = Len(output)
                        /\ \A row \in Rows(output) :
                               Occurrences(out, row) = Occurrences(output, row)

\* two repository records in both orders and two pull requests of one of them,
\* merged at different times, the later one first
C15_Witness ==
    /\ apc = "written"
    /\ Len(repo_raw_df) = 2
    /\ repo_raw_df[1].id # repo_raw_df[2].id
    /\ Len(pr_raw_df) = 2
    /\ pr_raw_df[1].head_repo_id = pr_raw_df[2].head_repo_id
    /\ pr_raw_df[1].merged_at = 2
    /\ pr_raw_df[2].merged_at = 1
    /\ Len(output) = 1
    /\ output[1].merged_at = 2
    /\ output[1].repository_id = repo_raw_df[2].id


(***************************************************************************)
(* Properties of main: what is persisted, and when.                        *)
(***************************************************************************)
\* the document that holds data
Document(data) == [exists |-> TRUE, data |-> data]

\* C16: main persists the outputs of both fetches.  A pull-request request is
\* issued only when the repositories document already holds the fetched
\* repositories, and the harvest runs over exactly their names; when the harvest
\* has returned, the pull-request document is written with its result.  An empty
\* fetched sequence writes nothing: without repositories neither document is
\* touched and no harvest is run, and an empty harvest leaves the pull-request
\* document as it was.  No other step touches a document.
C16_OutputsPersisted ==
    [][/\ (IssuesRequest /\ url.kind = "pulls") =>
              /\ repos_data # <<>>
              /\ files.repositories = Document(repos_data)
              /\ repositories = Names(repos_data)
       /\ (phase = "fetch_repositories" /\ phase' \in {"fetch_pull_requests", "done"}) =>
              /\ repos_data' = all_data
              /\ files'.pull_requests = files.pull_requests
              /\ IF all_data # <<>>
                 THEN /\ files'.repositories = Document(all_data)
                      /\ phase' = "fetch_pull_requests"
                      /\ repositories' = Names(all_data)
                 ELSE /\ files' = files
                      /\ phase' = "done"
                      /\ harvested' = <<>>
       /\ (phase = "fetch_pull_requests" /\ phase' = "done") =>
              /\ harvested' = Names(repos_data)
              /\ files'.repositories = files.repositories
              /\ files'.pull_requests =
                     IF pr_data' # <<>> THEN Document(pr_data') ELSE files.pull_requests
       /\ (phase' = phase \/ phase' = "raised") => files' = files
      ]_allvars

\* a run that found an earlier run's documents, fetched repositories and no
\* pull request: the repositories document is replaced, the other one kept
C16_Witness ==
    /\ phase = "done"
    /\ repos_data # <<>>
    /\ files.repositories = Document(repos_data)
    /\ harvested = Names(repos_data)
    /\ pr_data = <<>>
    /\ files.pull_requests = OldFile

=============================================================================
